---- MODULE Spec2Model ----
(***************************************************************************)
(* Model of src/react_langfuse_pipe.py: the Pipe object of the ReAct       *)
(* manifold (valves, setup, pipes) and one turn of Pipe.pipe: the probe    *)
(* guard, backend dispatch, title generation, the no-tools passthrough and *)
(* the agent streaming loop with its Active Tool Set (started_tools), its  *)
(* tool-call counter (num_tool_calls) and the notifier closures            *)
(* send_status / send_citation.                                            *)
(*                                                                         *)
(* Everything the host can observe of a turn is appended, in the order the *)
(* code performs it, to the history variable log: fragments yielded by the *)
(* generator, calls of send_status and send_citation (with what the sink   *)
(* did with them) and backend invocations.  consumed is the history of the *)
(* items pulled from the engine (or backend) stream.                       *)
(***************************************************************************)
EXTENDS Integers, Sequences, FiniteSets, TLC

\* ------------------------------------------------------------------ bounds
MaxEvents == 4      \* items one turn pulls from the engine / backend stream

\* ------------------------------------------------------- input alphabets
ToolNames == {"calc", "search"}           \* names of the host-supplied tools
Contents  == {"", "a", "b"}               \* chunk.content values (str)
NonStr    == "<list>"                     \* a chunk.content that is not a str
ToolInput  == "{a:2,b:2}"                 \* data.get('input') as formatted
ToolOutput == "4"                         \* data.get('output') as formatted
Bodies    == { <<"react", "gpt-4o">>,     \* body["model"] split at "."
               <<"react", "llama3", "1">>,
               <<"gpt-4">> }
Tasks     == {"None", "title_generation", "function_calling"}
ToolArgs  == {"None", "empty", "some"}    \* __tools__: None, {}, {name: ...}
Emitters  == {"None", "ok", "flaky"}      \* __event_emitter__: None, a sink
                                          \* that returns, a sink that may raise

VARIABLES
    self,             \* the Pipe object: valves and the attributes setup/pipes set
    pc,               \* position of the turn
    err,              \* exception that ended the turn ("" if none)
    body, task, tools, emitter,   \* arguments of the running Pipe.pipe call
    consumed,         \* items pulled from the engine / backend stream so far
    log,              \* observable effects of the turn, in order
    num_tool_calls,   \* local of Pipe.pipe
    started_tools,    \* local of Pipe.pipe (the Active Tool Set)
    reconciled,       \* names the final for-loop has already visited
    other             \* a second call of Pipe.pipe on the same Pipe object,
                      \* suspended: its arguments, position and locals

vars == <<self, pc, err, body, task, tools, emitter, consumed, log,
          num_tool_calls, started_tools, reconciled, other>>

\* ----------------------------------------------------------- formatting
\* f"Running tool {name}"
RunningMsg(name) == "Running tool " \o name

\* f"Tool '{name}' returned {data.get('output')}"
ReturnedMsg(name, output) == "Tool '" \o name \o "' returned " \o output

\* f"Tool '{name}' failed."
FailedMsg(name) == "Tool '" \o name \o "' failed."

\* f"Tool call {num_tool_calls}"
CitationUrl(n) == "Tool call " \o ToString(n)

\* f"Tool '{name}' with inputs {data.get('input')} returned {data.get('output')}"
CitationContent(name, input, output) ==
    "Tool '" \o name \o "' with inputs " \o input \o " returned " \o output

\* ------------------------------------------------------------ log entries
\* Every entry carries ev, the position in consumed of the item whose handling
\* produced it (0: before the first item; Len(consumed) + 1: after the stream
\* ended).  ev is history information; the host sees the other fields.
YieldEntry(text, ev) == [type |-> "yield", text |-> text, ev |-> ev]

\* sink: "noop" (no emitter attached), "ok" (emitter returned), "raised"
StatusEntry(msg, done, sink, ev) ==
    [type |-> "status", description |-> msg, done |-> done, sink |-> sink,
     ev |-> ev]

CitationEntry(url, title, content, sink, ev) ==
    [type |-> "source", source |-> url, name |-> title, document |-> content,
     sink |-> sink, ev |-> ev]

BackendEntry(call, model_id, source) ==
    [type |-> "backend", call |-> call, model |-> model_id, source |-> source,
     ev |-> 0]

\* (variant: the closures lack the "is None" test and call None)
SinkOutcomes_NoNoneTest(em) ==
    IF em = "None" THEN {"raised"}
    ELSE IF em = "ok" THEN {"ok"}
    ELSE {"ok", "raised"}

\* what awaiting the emitter can do, by the kind of emitter supplied: the
\* closures return at once without an emitter (lines 49-50, 67-68), and
\* otherwise await it with no handler around the await (lines 51, 69)
SinkOutcomes(em) ==
    IF em = "None" THEN {"noop"}
    ELSE IF em = "ok" THEN {"ok"}
    ELSE {"ok", "raised"}

\* ------------------------------------------------------------- the Pipe
RECURSIVE JoinDots(_)
JoinDots(parts) ==
    IF parts = <<>> THEN ""
    ELSE IF Len(parts) = 1 THEN parts[1]
    ELSE parts[1] \o "." \o JoinDots(Tail(parts))

\* ".".join(body["model"].split(".")[1:])
ModelIdOf(b) == JoinDots(Tail(b))

ValvesSet == [openai : BOOLEAN, ollama : BOOLEAN, langfuse : BOOLEAN]

\* Pipe.setup: the attributes after the call and whether it raised ValueError
Setup(s) ==
    LET v  == s.valves
        s1 == [s EXCEPT !.openai_kwargs = IF v.openai THEN "set" ELSE "None",
                        !.ollama_kwargs = IF v.ollama THEN "set" ELSE "None"]
    IN  IF ~(v.openai \/ v.ollama)
        THEN [self |-> s1, raised |-> TRUE]
        ELSE [self |-> [s1 EXCEPT !.langfuse_kwargs =
                                      IF v.langfuse THEN "set" ELSE "None"],
              raised |-> FALSE]

\* the dict pipes() builds: openai entries first, ollama entries override
ModelSources(s, oai_models, ollama_models) ==
    LET oai == IF s.openai_kwargs = "set" THEN oai_models ELSE {}
        oll == IF s.ollama_kwargs = "set" THEN ollama_models ELSE {}
    IN  [m \in oai \cup oll |-> IF m \in oll THEN "ollama" ELSE "openai"]

\* a call of Pipe.pipe that has not been made yet
NotCalled ==
    [pc |-> "idle", err |-> "", body |-> <<>>, task |-> "None",
     tools |-> "None", emitter |-> "None", consumed |-> <<>>, log |-> <<>>,
     num_tool_calls |-> 0, started_tools |-> {}, reconciled |-> {}]

Init ==
    /\ self \in [valves : ValvesSet,
                 openai_kwargs : {"unset"}, ollama_kwargs : {"unset"},
                 langfuse_kwargs : {"unset"}, model_sources : {<<>>}]
    /\ pc = "idle"
    /\ err = ""
    /\ body = <<>>
    /\ task = "None"
    /\ tools = "None"
    /\ emitter = "None"
    /\ consumed = <<>>
    /\ log = <<>>
    /\ num_tool_calls = 0
    /\ started_tools = {}
    /\ reconciled = {}
    /\ other = NotCalled


\* ------------------------------------------------------------ Pipe.pipes
OpenAIListing == {"gpt-4o"}      \* ids openai.models.list() has among ENABLED_MODELS
OllamaListing == {"llama3.1"}    \* names client.list() returns

\* Pipe.pipes(): setup, then the model-listing partition.  A provider whose
\* listing raises contributes no model (the except branches), as does one
\* that lists nothing.
pipes(oai_models, ollama_models) ==
    /\ pc = "idle"
    /\ LET r == Setup(self)
       IN  self' = IF r.raised THEN r.self
                   ELSE [r.self EXCEPT !.model_sources =
                            << ModelSources(r.self, oai_models, ollama_models) >>]
    /\ UNCHANGED <<pc, err, body, task, tools, emitter, consumed, log,
                   num_tool_calls, started_tools, reconciled, other>>

\* ------------------------------------------------------------- Pipe.pipe
\* (variant: the probe test is missing)
IsProbe_Never(t) == FALSE

\* if __task__ == "function_calling": return
IsProbe(t) == t = "function_calling"

\* (variant: the title test is nested in the no-tools branch)
IsTitle_OnlyWithoutTools(t, tl) == t = "title_generation" /\ tl # "some"

\* if __task__ == "title_generation" (tested before "if not __tools__")
IsTitle(t, tl) == t = "title_generation"

\* not __tools__
NoTools(tl) == tl \in {"None", "empty"}

\* (variant: self.model_sources.get(model_id), whose None takes the else
\* branch of line 175)
Lookup_DefaultOllama(sources, mid) ==
    IF mid \in DOMAIN sources THEN << sources[mid] >> ELSE << "ollama" >>

\* line 175: self.model_sources[model_id], <<>> standing for the KeyError of
\* an id that is not a key
Lookup(sources, mid) ==
    IF mid \in DOMAIN sources THEN << sources[mid] >> ELSE <<>>

\* Lines 173-203 up to the first backend call: where the turn goes after
\* setup() returned the Pipe s, as [pc, err, log].
Dispatch(s, b, t, tl) ==
    LET mid == ModelIdOf(b)
        Fail(e) == [pc |-> "error", err |-> e, log |-> <<>>]
    IN  IF s.model_sources = <<>> THEN Fail("AttributeError")
        ELSE IF Lookup(s.model_sources[1], mid) = <<>> THEN Fail("KeyError")
        ELSE LET src == Lookup(s.model_sources[1], mid)[1]
             IN  IF src = "openai" /\ s.openai_kwargs # "set"
                     THEN Fail("AssertionError")
                 ELSE IF src # "openai" /\ s.ollama_kwargs # "set"
                     THEN Fail("AssertionError")
                 ELSE IF IsTitle(t, tl)
                     THEN [pc |-> "title", err |-> "",
                           log |-> << BackendEntry("invoke", mid, src) >>]
                 ELSE IF NoTools(tl)
                     THEN [pc |-> "stream", err |-> "",
                           log |-> << BackendEntry("astream", mid, src) >>]
                 ELSE [pc |-> "agent", err |-> "",
                       log |-> << BackendEntry("astream_events", mid, src) >>]

\* The call of Pipe.pipe up to its first suspension point.  Line 169,
\* extract_event_info, only reads the emitter's closure; its result is passed
\* on to the backend as run_id and decides nothing here.
pipe(b, t, tl, em) ==
    /\ pc = "idle"
    /\ body' = b /\ task' = t /\ tools' = tl /\ emitter' = em
    /\ IF IsProbe(t)
       THEN /\ pc' = "done"
            /\ UNCHANGED <<self, err, log>>
       ELSE LET r == Setup(self)
            IN  /\ self' = r.self
                /\ IF r.raised
                   THEN pc' = "error" /\ err' = "ValueError" /\ log' = log
                   ELSE LET d == Dispatch(r.self, b, t, tl)
                        IN  pc' = d.pc /\ err' = d.err /\ log' = log \o d.log
    \* lines 221-222, on the way into the loop: the locals of this call
    /\ num_tool_calls' = IF pc' = "agent" THEN 0 ELSE num_tool_calls
    /\ started_tools' = IF pc' = "agent" THEN {} ELSE started_tools
    /\ UNCHANGED <<consumed, reconciled, other>>

\* what a backend call returns: a message (invoke) or a chunk (astream)
BackendChunk(content) == [event |-> "backend", name |-> "", chunk |-> <<content>>]

\* title_generation: content = model.invoke(...).content; assert str; yield
TitleFragments(content, ev) == << YieldEntry(content, ev) >>

title_invoke(content) ==
    /\ pc = "title"
    /\ consumed' = Append(consumed, BackendChunk(content))
    /\ IF content = NonStr
       THEN pc' = "error" /\ err' = "AssertionError" /\ log' = log
       ELSE pc' = "done" /\ err' = err /\ log' = log \o TitleFragments(content, Len(consumed'))
    /\ UNCHANGED <<self, body, task, tools, emitter,
                   num_tool_calls, started_tools, reconciled, other>>

\* the backend call (invoke, or the next item of astream) raises
backend_error ==
    /\ pc \in {"title", "stream"}
    /\ pc' = "error" /\ err' = "BackendError"
    /\ UNCHANGED <<self, body, task, tools, emitter, consumed, log,
                   num_tool_calls, started_tools, reconciled, other>>

\* (variant: empty chunks are skipped, as in the agent loop)
ChunkFragments_SkipEmpty(content, ev) ==
    IF content # "" THEN << YieldEntry(content, ev) >> ELSE <<>>

\* not __tools__: one chunk of model.astream; assert str; yield content

ChunkFragments(content, ev) == << YieldEntry(content, ev) >>

astream_chunk(content) ==
    /\ pc = "stream"
    /\ Len(consumed) < MaxEvents
    /\ consumed' = Append(consumed, BackendChunk(content))
    /\ IF content = NonStr
       THEN pc' = "error" /\ err' = "AssertionError" /\ log' = log
       ELSE pc' = pc /\ err' = err /\ log' = log \o ChunkFragments(content, Len(consumed'))
    /\ UNCHANGED <<self, body, task, tools, emitter,
                   num_tool_calls, started_tools, reconciled, other>>

\* model.astream is exhausted: return
astream_end ==
    /\ pc = "stream"
    /\ pc' = "done"
    /\ UNCHANGED <<self, err, body, task, tools, emitter, consumed, log,
                   num_tool_calls, started_tools, reconciled, other>>


\* ------------------------------------------------- the agent streaming loop
\* events of graph.astream_events: event["event"], event["name"] and, for a
\* model event, data["chunk"].content (<<>> when data has no "chunk")
ModelStream(chunk) == [event |-> "on_chat_model_stream", name |-> "", chunk |-> chunk]
ToolStart(name)    == [event |-> "on_tool_start", name |-> name, chunk |-> <<>>]
ToolEnd(name)      == [event |-> "on_tool_end", name |-> name, chunk |-> <<>>]
OtherEvent         == [event |-> "on_chain_end", name |-> "", chunk |-> <<>>]

Chunks == {<<>>} \cup { <<c>> : c \in Contents }

\* (variant: the truthiness test on the content is missing)
TextFragments_NoContentTest(chunk, ev) ==
    IF chunk # <<>> THEN << YieldEntry(chunk[1], ev) >> ELSE <<>>

\* lines 230-232: if "chunk" in data and (content := data["chunk"].content)
TextFragments(chunk, ev) ==
    IF chunk # <<>> /\ chunk[1] # "" THEN << YieldEntry(chunk[1], ev) >> ELSE <<>>

\* (variant: the status call is made before the separator is yielded)
ToolStartEffects_StatusFirst(name, sink, ev) ==
    << StatusEntry(RunningMsg(name), FALSE, sink, ev), YieldEntry("\n", ev) >>

\* lines 234-236: yield "\n"; await send_status(f"Running tool {name}", False)
ToolStartEffects(name, sink, ev) ==
    << YieldEntry("\n", ev), StatusEntry(RunningMsg(name), FALSE, sink, ev) >>

\* line 239: num_tool_calls += 1
NextCount(n) == n + 1

\* line 241: await send_status(f"Tool '{name}' returned ...", True)
ReturnedStatus(name, sink, ev) ==
    StatusEntry(ReturnedMsg(name, ToolOutput), TRUE, sink, ev)

\* lines 242-246: await send_citation(url=f"Tool call {num_tool_calls}", ...)
ToolCitation(n, name, sink, ev) ==
    CitationEntry(CitationUrl(n), name,
                  CitationContent(name, ToolInput, ToolOutput), sink, ev)

\* (variant: started_tools.add(name) stands before the await of line 236)
AddedOnRaise_AddFirst(active, name) == active \cup {name}

\* the set when the await of line 236 raised: line 237 was not reached
AddedOnRaise(active, name) == active

\* (variant: started_tools.remove(name) is the first statement of the branch)
BeforeRemove_RemoveFirst(st, ci) == <<>>

\* what the on_tool_end branch has sent when line 247 is reached: the
\* returned-status of line 241 and the citation of lines 242-246
BeforeRemove(st, ci) == << st, ci >>

\* (variant: the name stays in the set when its tool has finished)
Removed_Kept(active, name) == active

\* line 247: started_tools.remove(name), for a name that is in the set
Removed(active, name) == active \ {name}

\* line 249: await send_status(f"Tool '{name}' failed.", True)
FailedStatus(name, sink, ev) == StatusEntry(FailedMsg(name), TRUE, sink, ev)

\* (variant: the for loop of lines 248-249 is indented into the async for)
Pulling_WhileReconciling(p) == p \in {"agent", "reconcile"}

\* the positions at which the async for (lines 223-227) pulls the next event
Pulling(p) == p = "agent"

LoopFrame == UNCHANGED <<self, body, task, tools, emitter, reconciled, other>>

on_chat_model_stream(chunk) ==
    /\ Pulling(pc)
    /\ Len(consumed) < MaxEvents
    /\ consumed' = Append(consumed, ModelStream(chunk))
    /\ log' = log \o TextFragments(chunk, Len(consumed'))
    /\ UNCHANGED <<pc, err, num_tool_calls, started_tools>>
    /\ LoopFrame

on_tool_start(name, sink) ==
    /\ Pulling(pc)
    /\ Len(consumed) < MaxEvents
    /\ sink \in SinkOutcomes(emitter)
    /\ consumed' = Append(consumed, ToolStart(name))
    /\ log' = log \o ToolStartEffects(name, sink, Len(consumed'))
    /\ IF sink = "raised"
       THEN /\ pc' = "error" /\ err' = "SinkError"
            /\ started_tools' = AddedOnRaise(started_tools, name)
       ELSE started_tools' = started_tools \cup {name} /\ UNCHANGED <<pc, err>>
    /\ UNCHANGED num_tool_calls
    /\ LoopFrame

on_tool_end(name, sink1, sink2) ==
    /\ Pulling(pc)
    /\ Len(consumed) < MaxEvents
    /\ sink1 \in SinkOutcomes(emitter)
    /\ sink2 \in SinkOutcomes(emitter)
    /\ consumed' = Append(consumed, ToolEnd(name))
    /\ num_tool_calls' = NextCount(num_tool_calls)
    /\ LET st == ReturnedStatus(name, sink1, Len(consumed'))
           ci == ToolCitation(num_tool_calls', name, sink2, Len(consumed'))
       IN  IF sink1 = "raised"
           THEN /\ log' = log \o << st >>
                /\ pc' = "error" /\ err' = "SinkError"
                /\ UNCHANGED started_tools
           ELSE IF sink2 = "raised"
           THEN /\ log' = log \o << st, ci >>
                /\ pc' = "error" /\ err' = "SinkError"
                /\ UNCHANGED started_tools
           ELSE IF name \notin started_tools      \* set.remove: KeyError
           THEN /\ log' = log \o BeforeRemove(st, ci)
                /\ pc' = "error" /\ err' = "KeyError"
                /\ UNCHANGED started_tools
           ELSE /\ log' = log \o << st, ci >>
                /\ started_tools' = Removed(started_tools, name)
                /\ UNCHANGED <<pc, err>>
    /\ LoopFrame

\* an event of any other kind: no branch of the if/elif chain applies
other_event ==
    /\ Pulling(pc)
    /\ Len(consumed) < MaxEvents
    /\ consumed' = Append(consumed, OtherEvent)
    /\ UNCHANGED <<pc, err, log, num_tool_calls, started_tools>>
    /\ LoopFrame

\* the engine stream raises (model failure, cancellation): the exception
\* leaves the async for and the generator
astream_events_error ==
    /\ pc = "agent"
    /\ pc' = "error" /\ err' = "EngineError"
    /\ UNCHANGED <<consumed, log, num_tool_calls, started_tools>>
    /\ LoopFrame

\* (variant: the async for is wrapped in "while started_tools", subscribing
\* to the engine again as long as a tool has not finished)
AfterStream_Resubscribe(active) == IF active = {} THEN "done" ELSE "agent"

\* where the generator goes when the async for is exhausted: into the for
\* loop of line 248, or off its end when the set is empty
AfterStream(active) == IF active = {} THEN "done" ELSE "reconcile"

\* the engine stream is exhausted: on to line 248
astream_events_end ==
    /\ pc = "agent"
    /\ pc' = AfterStream(started_tools)
    /\ UNCHANGED <<err, consumed, log, num_tool_calls, started_tools>>
    /\ LoopFrame

\* lines 248-249: one iteration of "for name in started_tools" (a set: any order)
reconcile(name, sink) ==
    /\ pc = "reconcile"
    /\ name \in started_tools \ reconciled
    /\ sink \in SinkOutcomes(emitter)
    /\ log' = log \o << FailedStatus(name, sink, Len(consumed) + 1) >>
    /\ reconciled' = reconciled \cup {name}
    /\ IF sink = "raised"
       THEN pc' = "error" /\ err' = "SinkError"
       ELSE /\ pc' = IF reconciled' = started_tools THEN "done" ELSE "reconcile"
            /\ UNCHANGED err
    /\ UNCHANGED <<self, body, task, tools, emitter, consumed,
                   num_tool_calls, started_tools, other>>

Outcomes == {"noop", "ok", "raised"}

Next ==
    \/ \E o \in SUBSET OpenAIListing, l \in SUBSET OllamaListing : pipes(o, l)
    \/ \E b \in Bodies, t \in Tasks, tl \in ToolArgs, em \in Emitters :
           pipe(b, t, tl, em)
    \/ \E c \in Contents \cup {NonStr} : title_invoke(c)
    \/ backend_error
    \/ \E c \in Contents \cup {NonStr} : astream_chunk(c)
    \/ astream_end
    \/ \E ch \in Chunks : on_chat_model_stream(ch)
    \/ \E n \in ToolNames, o \in Outcomes : on_tool_start(n, o)
    \/ \E n \in ToolNames, o1 \in Outcomes, o2 \in Outcomes : on_tool_end(n, o1, o2)
    \/ other_event
    \/ astream_events_error
    \/ astream_events_end
    \/ \E n \in ToolNames, o \in Outcomes : reconcile(n, o)

Spec == Init /\ [][Next]_vars

\* ------------------------------------------------ two calls on one Pipe
MaxConcEvents == 3    \* items the two calls pull from their streams, together

ConcBody  == <<"react", "gpt-4o">>    \* both calls ask for the same model
ConcChunk == <<"a">>                  \* the text delta either engine streams

\* the running call: arguments, position and the locals of its generator frame
Running ==
    [pc |-> pc, err |-> err, body |-> body, task |-> task, tools |-> tools,
     emitter |-> emitter, consumed |-> consumed, log |-> log,
     num_tool_calls |-> num_tool_calls, started_tools |-> started_tools,
     reconciled |-> reconciled]

\* (variant: num_tool_calls is an attribute of the Pipe, kept across calls)
ResumedCount_Shared(running, suspended) == running

\* the counter the resumed call goes on with: num_tool_calls is a local of
\* Pipe.pipe (line 221), so each generator frame has its own
ResumedCount(running, suspended) == suspended

\* The event loop suspends the running call where it stands (every state
\* between two actions is a yield or an await of it, or the point before
\* the host calls it) and resumes the other one.  The Pipe object is the
\* same for both.
switch ==
    /\ other # Running
    /\ other' = Running
    /\ pc' = other.pc /\ err' = other.err
    /\ body' = other.body /\ task' = other.task
    /\ tools' = other.tools /\ emitter' = other.emitter
    /\ consumed' = other.consumed /\ log' = other.log
    /\ num_tool_calls' = ResumedCount(num_tool_calls, other.num_tool_calls)
    /\ started_tools' = other.started_tools
    /\ reconciled' = other.reconciled
    /\ UNCHANGED self

\* turns with tools, through the agent loop
NextConc ==
    \/ /\ \/ \E o \in SUBSET OpenAIListing, l \in SUBSET OllamaListing : pipes(o, l)
          \/ \E em \in Emitters : pipe(ConcBody, "None", "some", em)
          \/ on_chat_model_stream(ConcChunk)
          \/ \E n \in ToolNames, o \in Outcomes : on_tool_start(n, o)
          \/ \E n \in ToolNames, o1 \in Outcomes, o2 \in Outcomes : on_tool_end(n, o1, o2)
          \/ other_event
          \/ astream_events_error
          \/ astream_events_end
          \/ \E n \in ToolNames, o \in Outcomes : reconcile(n, o)
       /\ Len(consumed') + Len(other'.consumed) <= MaxConcEvents
    \/ switch

SpecConc == Init /\ [][NextConc]_vars

\* ------------------------------------------------- the agent loop alone
\* one call with tools, through the agent loop
NextLoop ==
    \/ \E o \in SUBSET OpenAIListing, l \in SUBSET OllamaListing : pipes(o, l)
    \/ \E em \in Emitters : pipe(ConcBody, "None", "some", em)
    \/ on_chat_model_stream(ConcChunk)
    \/ \E n \in ToolNames, o \in Outcomes : on_tool_start(n, o)
    \/ \E n \in ToolNames, o1 \in Outcomes, o2 \in Outcomes : on_tool_end(n, o1, o2)
    \/ other_event
    \/ astream_events_error
    \/ astream_events_end
    \/ \E n \in ToolNames, o \in Outcomes : reconcile(n, o)

\* The loop under the assumptions of a finite engine stream and a consumer
\* that keeps pulling: the stream's end is delivered, and the for loop of
\* lines 248-249 goes on while there is a name left.
SpecLive ==
    /\ Init /\ [][NextLoop]_vars
    /\ WF_vars(astream_events_end)
    /\ WF_vars(\E n \in ToolNames, o \in Outcomes : reconcile(n, o))

TypeOK ==
    /\ pc \in {"idle", "title", "stream", "agent", "reconcile", "done", "error"}
    /\ num_tool_calls \in 0..MaxEvents
    /\ started_tools \subseteq ToolNames
    /\ reconciled \subseteq started_tools
    /\ Len(consumed) <= MaxEvents


\* ===================================================================
\* Properties
\* ===================================================================
\* the turn went into the agent streaming loop (tools present)
AgentTurn == log # <<>> /\ log[1].call = "astream_events"

TurnOver == pc \in {"done", "error"}

\* the async for over the engine stream finished normally
StreamEnded == AgentTurn /\ (pc \in {"reconcile", "done"} \/ reconciled # {})

Starts(n) == { i \in DOMAIN consumed : consumed[i] = ToolStart(n) }
Ends(n)   == { i \in DOMAIN consumed : consumed[i] = ToolEnd(n) }

IsTerminalFor(e, n) ==
    /\ e.type = "status"
    /\ e.done
    /\ e.description \in {ReturnedMsg(n, ToolOutput), FailedMsg(n)}

\* done=true status notifications for n the host sink received
TerminalReceived(n) ==
    { j \in DOMAIN log : IsTerminalFor(log[j], n) /\ log[j].sink = "ok" }

IsCitationFor(e, n) == e.type = "source" /\ e.name = n

MapContent(evs) == [ i \in 1..Len(evs) |-> evs[i].chunk[1] ]
MapText(es)     == [ i \in 1..Len(es) |-> es[i].text ]

IsDelta(e)         == e.event = "on_chat_model_stream" /\ e.chunk # <<>>
IsNonEmptyDelta(e) == IsDelta(e) /\ e.chunk[1] # ""
IsDeltaYield(e) ==
    e.type = "yield" /\ e.ev \in DOMAIN consumed
                     /\ consumed[e.ev].event = "on_chat_model_stream"

\* fragments yielded for text-delta events, in output order
YieldedDeltas == MapText(SelectSeq(log, IsDeltaYield))

\* ------------------------------------------------------------------ C1
\* C1: with a sink attached, every tool name for which a tool-started event
\* was processed has received exactly one done=true status by the end of the
\* turn, and never more than one at any point of it.
C1_ExactlyOneTerminalStatus ==
    \A n \in ToolNames :
        (AgentTurn /\ emitter # "None" /\ Starts(n) # {}) =>
            /\ Cardinality(TerminalReceived(n)) <= 1
            /\ TurnOver => Cardinality(TerminalReceived(n)) = 1

\* ------------------------------------------------------------------ C2
\* C2: when the engine stream delivered a tool-started event for n, no
\* tool-finished event for n, and then ended, the turn has called
\* send_status("Tool 'n' failed.", True) after the end of the stream by the
\* time it is over, and has sent no citation for n.
C2_FailedAfterStreamEnd ==
    \A n \in ToolNames :
        (StreamEnded /\ TurnOver /\ Starts(n) # {} /\ Ends(n) = {}) =>
            /\ \E j \in DOMAIN log :
                   /\ log[j].type = "status"
                   /\ log[j].description = FailedMsg(n)
                   /\ log[j].done
                   /\ log[j].ev = Len(consumed) + 1
            /\ ~ \E j \in DOMAIN log : IsCitationFor(log[j], n)

\* ------------------------------------------------------------------ C3
\* C3 as claimed: the fragments yielded for text-delta events are the
\* contents of all the deltas pulled from the engine stream, in order.
C3_AllDeltasYielded ==
    AgentTurn => YieldedDeltas = MapContent(SelectSeq(consumed, IsDelta))

\* C3 amended: the fragments yielded for text-delta events are the contents
\* of the deltas with non-empty content pulled from the engine stream, in
\* the order received, none dropped, duplicated or reordered; a delta with
\* empty content yields nothing.
C3_NonEmptyDeltasYieldedInOrder ==
    AgentTurn => YieldedDeltas = MapContent(SelectSeq(consumed, IsNonEmptyDelta))

C3_Witness ==
    /\ AgentTurn
    /\ Len(YieldedDeltas) >= 2
    /\ YieldedDeltas[1] # YieldedDeltas[2]
    /\ \E i \in DOMAIN consumed : IsDelta(consumed[i]) /\ consumed[i].chunk[1] = ""

\* ------------------------------------------------------------------ C4
\* C4: for every tool-started event the separator "\n" is in the output, and
\* it comes before the "Running tool ..." status call of that event.
C4_SeparatorBeforeStartStatus ==
    AgentTurn =>
        \A i \in DOMAIN consumed :
            consumed[i].event = "on_tool_start" =>
                \E j \in DOMAIN log :
                    /\ log[j] = YieldEntry("\n", i)
                    /\ \A k \in DOMAIN log :
                           (log[k].type = "status" /\ log[k].ev = i) => j < k

C4_Witness ==
    /\ AgentTurn
    /\ \E k \in DOMAIN log :
           /\ log[k].type = "status"
           /\ log[k].description = RunningMsg("calc")
           /\ ~log[k].done
           /\ log[k].sink = "ok"


\* ------------------------------------------------------------------ C5
EndEvents == { i \in DOMAIN consumed : consumed[i].event = "on_tool_end" }

\* i is the Rank(i)-th tool-finished event of the turn
Rank(i) == Cardinality({ k \in EndEvents : k <= i })

\* C5: the counter equals the number of tool-finished events pulled so far
\* (it starts at 0, each such event adds exactly 1, nothing else changes it),
\* and the k-th tool-finished event has produced a send_citation call with
\* source "Tool call k" and the event's tool name as title.
C5_CitationNumbering ==
    AgentTurn =>
        /\ num_tool_calls = Cardinality(EndEvents)
        /\ \A i \in EndEvents :
               \E j \in DOMAIN log :
                   /\ log[j].type = "source"
                   /\ log[j].ev = i
                   /\ log[j].source = CitationUrl(Rank(i))
                   /\ log[j].name = consumed[i].name

\* ------------------------------------------------------------------ C6
\* C6: with a sink attached, for every tool-finished event of a name that had
\* a tool-started event before it, the sink has received, in this order, the
\* status "Running tool {name}" (done=false), the status "Tool '{name}'
\* returned {output}" (done=true) and the citation of that completion.
C6_RunningReturnedCitationOrder ==
    (AgentTurn /\ emitter # "None") =>
        \A i \in EndEvents :
            (\E s \in Starts(consumed[i].name) : s < i) =>
                \E j1, j2, j3 \in DOMAIN log :
                    /\ j1 < j2 /\ j2 < j3
                    /\ log[j1] = StatusEntry(RunningMsg(consumed[i].name),
                                             FALSE, "ok", log[j1].ev)
                    /\ log[j1].ev < i
                    /\ log[j2] = ReturnedStatus(consumed[i].name, "ok", i)
                    /\ log[j3] = ToolCitation(Rank(i), consumed[i].name, "ok", i)

\* ------------------------------------------------------------------ C7
\* C7: a call with __task__ == "function_calling" returns at once: whatever
\* the body, tools, emitter and Pipe configuration, the turn is over after
\* the call with nothing yielded, no notifier call, no backend call, nothing
\* pulled from any stream and the Pipe object as it was.
C7_ProbeHasNoEffect ==
    [][ (task' = "function_calling" /\ pc' # "idle") =>
            /\ pc' = "done"
            /\ err' = ""
            /\ log' = <<>>
            /\ consumed' = <<>>
            /\ self' = self
            /\ num_tool_calls' = 0 /\ started_tools' = {} ]_vars

\* a finished probe on a Pipe whose setup() has never run, with tools given
C7_Witness ==
    /\ task = "function_calling"
    /\ pc = "done"
    /\ tools = "some"
    /\ emitter = "ok"
    /\ self.openai_kwargs = "unset"
    /\ self.valves.openai

\* ------------------------------------------------------------------ C8
IsYield(e)     == e.type = "yield"
IsBackend(e)   == e.type = "backend"
IsNotifier(e)  == e.type \in {"status", "source"}
IsTextChunk(e) == e.chunk[1] # NonStr

PassthroughTurn == pc # "idle" /\ task = "None" /\ NoTools(tools)

\* C8: in a turn without tools (no title task, no probe) the output is the
\* sequence of text chunks of the backend stream, in backend order; the only
\* backend call is astream, the agent loop is not entered and there is no
\* send_status / send_citation call.
C8_PassthroughIsBackendDeltas ==
    PassthroughTurn =>
        /\ MapText(SelectSeq(log, IsYield))
               = MapContent(SelectSeq(consumed, IsTextChunk))
        /\ \A j \in DOMAIN log :
               /\ ~IsNotifier(log[j])
               /\ IsBackend(log[j]) => log[j].call = "astream"
        /\ pc \notin {"agent", "reconcile", "title"}
        /\ num_tool_calls = 0 /\ started_tools = {}

C8_Witness ==
    /\ PassthroughTurn
    /\ pc = "done"
    /\ tools = "empty"
    /\ emitter = "ok"
    /\ MapText(SelectSeq(log, IsYield)) = <<"b", "", "a">>

\* ------------------------------------------------------------------ C9
TitleTurn == pc # "idle" /\ task = "title_generation"

\* C9: in a title_generation turn, with or without tools, the only backend
\* call is one invoke, there is no streaming call, no agent loop and no
\* notifier call, at most one fragment is yielded, and a turn that completes
\* has yielded exactly one fragment, the content the backend returned.
C9_TitleIsOneFragment ==
    TitleTurn =>
        /\ \A j \in DOMAIN log :
               /\ ~IsNotifier(log[j])
               /\ IsBackend(log[j]) => (j = 1 /\ log[j].call = "invoke")
        /\ Len(SelectSeq(log, IsYield)) <= 1
        /\ pc \notin {"stream", "agent", "reconcile"}
        /\ pc = "done" =>
               /\ Len(consumed) = 1
               /\ Len(log) = 2
               /\ IsBackend(log[1])
               /\ log[2] = YieldEntry(consumed[1].chunk[1], 1)

C9_Witness ==
    /\ TitleTurn
    /\ pc = "done"
    /\ tools = "some"
    /\ emitter = "ok"
    /\ MapText(SelectSeq(log, IsYield)) = <<"a">>

\* ------------------------------------------------------------------ C10
\* C10: an exception raised by the sink inside a send_status or send_citation
\* call never ends the turn.
C10_SinkFailureNeverAborts ==
    (\E j \in DOMAIN log : IsNotifier(log[j]) /\ log[j].sink = "raised") =>
        ~(pc = "error" /\ err = "SinkError")


\* ------------------------------------------------------------------ C11
\* the same notions for a call given as a record (the running or the other one)
InLoop(t) == t.log # <<>> /\ t.log[1].call = "astream_events"
YieldsOf(t) == MapText(SelectSeq(t.log, IsYield))

\* how far the engine stream of t has got: still open, exhausted, or raised
StreamState(t) ==
    IF t.err = "EngineError" THEN "raised"
    ELSE IF t.pc \in {"reconcile", "done"} \/ t.reconciled # {} THEN "exhausted"
    ELSE "open"

\* t1 and t2 were given the same request and engine stream and stand at the
\* same point of it
SameRun(t1, t2) ==
    /\ InLoop(t1) /\ InLoop(t2)
    /\ t1.body = t2.body /\ t1.task = t2.task /\ t1.tools = t2.tools
    /\ t1.consumed = t2.consumed
    /\ StreamState(t1) = StreamState(t2)
    /\ t1.reconciled = t2.reconciled

\* C11: without an emitter every send_status / send_citation call returns
\* without reaching any sink and without raising; and of two turns given the
\* same event stream, one without emitter and one with a sink that returns,
\* the one without yields the same fragments and is at the same position,
\* with the same outcome, as the one with the sink.
C11_NoSinkIsSilentNoOp ==
    \A p \in {<<Running, other>>, <<other, Running>>} :
        p[1].emitter = "None" =>
            /\ \A j \in DOMAIN p[1].log :
                   IsNotifier(p[1].log[j]) => p[1].log[j].sink = "noop"
            /\ p[1].err # "SinkError"
            /\ (p[2].emitter = "ok" /\ SameRun(p[1], p[2])) =>
                   /\ YieldsOf(p[1]) = YieldsOf(p[2])
                   /\ p[1].pc = p[2].pc
                   /\ p[1].err = p[2].err

\* both turns got on_tool_start(calc) and the end of the stream, and are over
C11_Witness ==
    /\ emitter = "None" /\ other.emitter = "ok"
    /\ SameRun(Running, other)
    /\ consumed = << ToolStart("calc") >>
    /\ pc = "done" /\ other.pc = "done"
    /\ YieldsOf(other) = << "\n" >>
    /\ \E j \in DOMAIN log : log[j] = FailedStatus("calc", "noop", 2)
    /\ \E j \in DOMAIN other.log : other.log[j] = FailedStatus("calc", "ok", 2)

\* ------------------------------------------------------------------ C12
\* C12: when the engine stream ended by raising, every name then in the
\* Active Tool Set has got a send_status("Tool '{name}' failed.", True) call.
C12_ReconciliationAfterEngineError ==
    (AgentTurn /\ TurnOver /\ err = "EngineError") =>
        \A n \in started_tools :
            \E j \in DOMAIN log :
                /\ log[j].type = "status"
                /\ log[j].description = FailedMsg(n)
                /\ log[j].done

\* ------------------------------------------------------------------ C13
IsFailed(e) ==
    e.type = "status" /\ e.description \in { FailedMsg(n) : n \in ToolNames }

\* C13: a failed-status is sent only once the engine stream has ended: it
\* belongs to no event, the loop is past pulling, its name is in the Active
\* Tool Set the stream left behind, and everything the turn does after it is
\* further failed-statuses (no fragment, no returned-status, no citation).
C13_FailedOnlyAfterStreamEnd ==
    AgentTurn =>
        \A j \in DOMAIN log :
            IsFailed(log[j]) =>
                /\ StreamEnded
                /\ pc # "agent"
                /\ log[j].ev = Len(consumed) + 1
                /\ \E n \in started_tools : log[j].description = FailedMsg(n)
                /\ \A k \in DOMAIN log : k > j => IsFailed(log[k])

\* a failed-status for search after calc started, finished, and text came
C13_Witness ==
    /\ AgentTurn
    /\ pc = "done"
    /\ Ends("calc") # {}
    /\ \E j \in DOMAIN log : log[j] = FailedStatus("search", "ok", Len(consumed) + 1)
    /\ \E j \in DOMAIN log : log[j].type = "yield" /\ log[j].text = "a"


\* ------------------------------------------------------------------ C14
\* names started and not finished by the events pulled so far
Unfinished == { n \in ToolNames : Starts(n) # {} /\ Ends(n) = {} }

\* every name has at most one tool call, and no finish without its start
DistinctCalls ==
    \A n \in ToolNames :
        /\ Cardinality(Starts(n)) <= 1
        /\ Cardinality(Ends(n)) <= 1
        /\ \A e \in Ends(n) : \E b \in Starts(n) : b < e

\* C14: on a stream of tool calls with pairwise distinct names, each started
\* before it finishes, no event handler raises, after each event the Active
\* Tool Set is the set of names started and not yet finished, the failed-
\* statuses are for those names only, and a turn that is over has sent them.
C14_InterleavingTolerated ==
    (AgentTurn /\ DistinctCalls) =>
        /\ err \notin {"KeyError", "SinkError"}
        /\ started_tools = Unfinished
        /\ \A j \in DOMAIN log :
               IsFailed(log[j]) =>
                   \E n \in Unfinished : log[j].description = FailedMsg(n)
        /\ pc = "done" =>
               \A n \in Unfinished :
                   \E j \in DOMAIN log :
                       IsFailed(log[j]) /\ log[j].description = FailedMsg(n)

EndsOf(t) == { i \in DOMAIN t.consumed : t.consumed[i].event = "on_tool_end" }
RankOf(t, i) == Cardinality({ k \in EndsOf(t) : k <= i })
StartedIn(t) ==
    { t.consumed[i].name :
        i \in { k \in DOMAIN t.consumed : t.consumed[k].event = "on_tool_start" } }

\* the set and the counter of call t are functions of t's own events
OwnLocals(t) ==
    InLoop(t) =>
        /\ t.num_tool_calls = Cardinality(EndsOf(t))
        /\ t.started_tools \subseteq StartedIn(t)
        /\ \A j \in DOMAIN t.log :
               /\ t.log[j].type = "source" =>
                      /\ t.log[j].ev \in EndsOf(t)
                      /\ t.log[j].source = CitationUrl(RankOf(t, t.log[j].ev))
               /\ IsFailed(t.log[j]) =>
                      \E n \in StartedIn(t) : t.log[j].description = FailedMsg(n)

\* the Pipe as a call finds it, whatever an earlier call left in the kwargs
Forgotten(s) ==
    [s EXCEPT !.openai_kwargs = "unset", !.ollama_kwargs = "unset",
              !.langfuse_kwargs = "unset"]

\* a step of the running call (not of pipes(), not a context switch)
TurnStep == other' = other /\ pc' # "idle"

UnknownModel ==
    \/ self.model_sources = <<>>
    \/ ModelIdOf(body) \notin DOMAIN self.model_sources[1]

\* C17: a call that is not a probe and asks for a model id that is not in
\* model_sources has ended with an error at dispatch: no backend was
\* invoked, no fragment yielded, no send_status or send_citation call made,
\* nothing pulled from any stream.
C17_UnknownModelIsFatal ==
    (pc # "idle" /\ ~IsProbe(task) /\ UnknownModel) =>
        /\ pc = "error"
        /\ err \in {"KeyError", "AttributeError", "ValueError"}
        /\ log = <<>>
        /\ consumed = <<>>

\* a turn with tools and a sink for an ollama model the listing did not
\* return, on a Pipe with the ollama backend configured
C17_Witness ==
    /\ pc = "error" /\ err = "KeyError"
    /\ self.valves.ollama /\ self.ollama_kwargs = "set"
    /\ ModelIdOf(body) = "llama3.1"
    /\ self.model_sources # <<>> /\ "gpt-4o" \in DOMAIN self.model_sources[1]
    /\ tools = "some" /\ emitter = "ok"

\* ------------------------------------------------------------------ C18
FailedFor(n) ==
    { j \in DOMAIN log : IsFailed(log[j]) /\ log[j].description = FailedMsg(n) }

\* C18: the agent loop ends: every event is handled once, in the order
\* pulled (what the turn did is ordered by the event it was done for), the
\* engine is subscribed to once, each name gets at most one failed-status and
\* only if the stream left it in the Active Tool Set, and a turn in the loop
\* is eventually over, a turn whose stream has ended being over as soon as
\* its failed-statuses are sent.
C18_LoopTerminates ==
    /\ [](AgentTurn =>
            /\ \A j, k \in DOMAIN log : j < k => log[j].ev <= log[k].ev
            /\ \A j \in DOMAIN log : log[j].ev \in 0..(Len(consumed) + 1)
            /\ \A j \in DOMAIN log : IsBackend(log[j]) => j = 1
            /\ \A n \in ToolNames :
                   /\ Cardinality(FailedFor(n)) <= 1
                   /\ FailedFor(n) # {} => n \in started_tools
            /\ pc = "done" => \A n \in started_tools : FailedFor(n) # {})
    /\ (pc = "agent") ~> TurnOver
    /\ (pc = "reconcile") ~> (pc = "done" \/ err = "SinkError")

\* the stream of a turn ended with both tools unfinished, and the turn is
\* over after a failed-status for each
C18_Witness ==
    /\ AgentTurn /\ pc = "done"
    /\ started_tools = ToolNames
    /\ \A n \in ToolNames : Cardinality(FailedFor(n)) = 1
    /\ Len(consumed) >= 3

\* ------------------------------------------------------------------ C19
\* the step handles a tool-finished event for n
PullsEnd(n) == Pulling(pc) /\ consumed' = Append(consumed, ToolEnd(n))

\* C19: a tool-finished event for a name that is not in the Active Tool Set
\* ends the turn with an error; the counter has been incremented; the set is
\* as it was; when the error is the KeyError of the remove, the returned-
\* status and the citation numbered by the new counter were sent, and
\* returned, just before it; and no failed-status is sent for the names
\* left in the set.
C19_UnknownEndAbortsAfterEffects ==
    [][ \A n \in ToolNames :
            (PullsEnd(n) /\ n \notin started_tools) =>
                /\ pc' = "error"
                /\ err' \in {"KeyError", "SinkError"}
                /\ num_tool_calls' = num_tool_calls + 1
                /\ started_tools' = started_tools
                /\ reconciled' = {}
                /\ \A j \in DOMAIN log' : ~IsFailed(log'[j])
                /\ err' = "KeyError" =>
                       \E s1, s2 \in {"noop", "ok"} :
                           log' = log \o
                               << ReturnedStatus(n, s1, Len(consumed')),
                                  ToolCitation(num_tool_calls + 1, n, s2,
                                               Len(consumed')) >>
      ]_vars

\* calc finished twice while search is still running: the second finish
\* aborted the turn after its status and its citation "Tool call 2"
C19_Witness ==
    /\ AgentTurn
    /\ pc = "error" /\ err = "KeyError"
    /\ started_tools = {"search"}
    /\ Cardinality(Ends("calc")) = 2
    /\ num_tool_calls = 2
    /\ log[Len(log)] = ToolCitation(2, "calc", "ok", Len(consumed))
    /\ log[Len(log) - 1] = ReturnedStatus("calc", "ok", Len(consumed))

\* ------------------------------------------------------------------ C20
\* the handler of event i was left by an exception of the sink
Raised(i) == \E j \in DOMAIN log : log[j].ev = i /\ IsNotifier(log[j])
                                              /\ log[j].sink = "raised"

\* the "Running tool n" status call made for event i returned
StartStatusReturned(n, i) ==
    \E j \in DOMAIN log :
        /\ log[j].ev = i /\ log[j].type = "status"
        /\ log[j].description = RunningMsg(n)
        /\ log[j].sink # "raised"

\* C20: a name is in the Active Tool Set only if the start-status call of
\* one of its tool-started events returned and no tool-finished event for
\* the name has been handled to the end since; a tool-started event whose
\* status call raised has yielded its separator, has not added the name,
\* ended the turn, and no failed-status is sent.
C20_ActiveSetBookkeeping ==
    AgentTurn =>
        /\ \A n \in started_tools :
               \E i \in Starts(n) :
                   /\ StartStatusReturned(n, i)
                   /\ \A e \in Ends(n) : e > i => Raised(e)
        /\ \A n \in ToolNames : \A i \in Starts(n) :
               Raised(i) =>
                   /\ \E j \in DOMAIN log :
                          log[j] = YieldEntry("\n", i) /\ log[j + 1].ev = i
                   /\ pc = "error" /\ i = Len(consumed)
                   /\ n \in started_tools =>
                          \E k \in Starts(n) : k < i /\ StartStatusReturned(n, k)
                   /\ \A j \in DOMAIN log : ~IsFailed(log[j])

\* calc is running; the start-status of search raised after its separator
C20_Witness ==
    /\ AgentTurn
    /\ pc = "error" /\ err = "SinkError"
    /\ started_tools = {"calc"}
    /\ consumed[Len(consumed)] = ToolStart("search")
    /\ log[Len(log)] = StatusEntry(RunningMsg("search"), FALSE, "raised",
                                   Len(consumed))
    /\ log[Len(log) - 1] = YieldEntry("\n", Len(consumed))

====
